---- MODULE Spec2Model ----
(***************************************************************************)
(* The committee consensus operator of packages/consensus/action.go:       *)
(* takeAction (doLeader, startProcessing, checkQuorum, doSubordinate),     *)
(* requestBalancesFromNode and setNewState, together with the event        *)
(* handlers that feed it (execution task completion, signed results of     *)
(* peers, balances, request messages, notifications).                      *)
(***************************************************************************)
EXTENDS Integers, Sequences, FiniteSets, TLC

\* ---------------------------------------------------------------- bounds
\* committee size
N == 4
\* largest state index the ledger confirms
MaxStateIndex == 2
\* the clock runs from 0 to MaxTime (seconds)
MaxTime == 2
\* longest list of computation requests kept per state
MaxCompReqs == 1
\* requests sent to the solo chain
MaxBacklog == 3
\* largest amount MintTokens is asked for
MaxAmount == 2
\* transactions the ledger takes
MaxMints == 3

\* ------------------------------------------------------------- constants
\* const getBalancesTimeout = 1 * time.Second
getBalancesTimeout == 1

Peers == 0 .. (N - 1)
ReqIds == {"r1"}
Hashes == {"H1", "H2"}
Nil == [nil |-> TRUE]
\* op.variableState == nil
NoState == -1

VARIABLES
    stateIndex,                 \* op.stateTx / op.variableState: the state index, NoState when nil
    balances,                   \* op.balances: Nil or a snapshot [takenAt, storedAt |-> state index]
    getBalancesDeadline,        \* op.getBalancesDeadline
    leaderStatus,               \* op.leaderStatus: Nil or the round's record
    requests,                   \* op.requests: request id -> reqMsg and the two notification vectors
    currentStateCompRequests,   \* op.currentStateCompRequests
    nextStateCompRequests,      \* op.nextStateCompRequests
    tasks,                      \* execution tasks (go op.processRequest) still running
    balanceRequests,            \* balance queries sent to the node and not answered yet
    now,                        \* time.Now()
    crashed,                    \* a panic left the operator goroutine
    out,                        \* what the last handler sent, posted and returned
    postedHashes,               \* essence hashes posted since the last setNewState
    postCount,                  \* transactions posted since the last setNewState: 0, 1, 2 = more than one
    chInRequest,                \* ch.chInRequest: requests sent to the chain and not yet read
    backlog,                    \* the backing array of ch.backlog
    backlogLen,                 \* len(ch.backlog)
    backlogMutex,               \* ch.backlogMutex: "free" or the goroutine that holds it
    reader,                     \* readRequestsLoop: its position and the request it holds
    batch,                      \* batchLoop: its position and collateBatch's locals
    returned,                   \* the requests collateBatch has returned, in order
    logicalTime,                \* ch.Env.LogicalTime().Unix()
    sentReqs,                   \* number of requests sent to the chain so far
    utxoDB,                     \* env.utxoDB: the transactions in the ledger
    minted                      \* what the last MintTokens call did and returned

vars == <<stateIndex, balances, getBalancesDeadline, leaderStatus, requests,
          currentStateCompRequests, nextStateCompRequests, tasks, balanceRequests,
          now, crashed, out, postedHashes, postCount,
          chInRequest, backlog, backlogLen, backlogMutex, reader, batch, returned,
          logicalTime, sentReqs, utxoDB, minted>>

\* the consensus operator's state and the solo environment's state
operatorVars == <<stateIndex, balances, getBalancesDeadline, leaderStatus, requests,
                  currentStateCompRequests, nextStateCompRequests, tasks, balanceRequests,
                  now, crashed, out, postedHashes, postCount>>

backlogVars == <<chInRequest, backlog, backlogLen, backlogMutex, reader, batch, returned,
                 logicalTime, sentReqs>>

ledgerVars == <<utxoDB, minted>>

\* ------------------------------------------------------------ committee
\* op.committee.OwnPeerIndex() / op.peerIndex()
OwnPeerIndex == 0

\* op.quorum(): the Byzantine threshold floor(2N/3)+1
quorum == (2 * N) \div 3 + 1

\* leaderForState(stateIndex): the rotation scheme, a pure function of the state index
leaderForState(idx) == idx % 2

\* op.iAmCurrentLeader()
iAmCurrentLeader == stateIndex # NoState /\ leaderForState(stateIndex) = OwnPeerIndex

\* ------------------------------------------------------------ helpers
allFalse == [p \in Peers |-> FALSE]

\* setAllFalse(v)
setAllFalse(v) == [p \in DOMAIN v |-> FALSE]

Min(a, b) == IF a < b THEN a ELSE b

\* the outputs of a handler that sent, posted and returned nothing
\*   tick: the handler was takeAction
\*   fetched: a balance query was sent      selecting: selectRequestsToProcess ran
\*   selected: the batch it returned        sent, numSucc: the StartProcessing broadcast
\*   created: leaderStatus was created      checkQuorum: checkQuorum's return value
\*   sigShares: the shares handed to aggregateSigShares
\*   posted: resultTx was posted            panic: the handler panicked
\*   discarded: a completion or share was dropped as "stale" or as already "set"
\*   reset: the phase of the round setNewState discarded
\*   transition: setNewState took the "sequential" branch or the "jump" branch
\*   refetched: the balance query sent repeats one that is still unanswered
\*   order: the steps of takeAction that ran, in the order they ran
\*   aggResult: "" (no aggregation), "error" (aggregateSigShares failed),
\*              "invalid" (SignaturesValid failed) or "ok"
NoOut == [tick |-> FALSE, fetched |-> FALSE, selecting |-> FALSE, selected |-> {}, sent |-> FALSE,
          numSucc |-> 0, created |-> FALSE, checkQuorum |-> FALSE, sigShares |-> <<>>,
          posted |-> FALSE, panic |-> FALSE, discarded |-> "", reset |-> "",
          transition |-> "", refetched |-> FALSE, aggResult |-> "",
          order |-> <<>>]

\* takeMsgs(reqs): ok iff every selected request has its message
takeMsgsOk(sel) == \A r \in sel : requests[r].reqMsg

\* selectRequestsToProcess(): the batches the selection policy may return,
\* subsets of the requests whose message is known
Selectable == SUBSET {r \in ReqIds : requests[r].reqMsg}

\* op.committee.SendMsgToPeers: the numbers of successful sends tried, on both
\* sides of the reach guard
SendCounts == {quorum - 2, quorum - 1}

\* ------------------------------------------------------ requestBalances
\* mutant: the retry deadline is not consulted
requestBalancesFromNodeUnthrottled(bal, t, deadline) == bal = Nil

\* requestBalancesFromNode: TRUE iff a fetch is issued
requestBalancesFromNode(bal, t, deadline) == bal = Nil /\ t > deadline

\* ------------------------------------------------------ startProcessing
\* the leaderStatus startProcessing creates
newLeaderStatus(sel, ts) ==
    [reqs |-> sel, batchHash |-> sel, ts |-> ts,
     signedResults |-> [p \in Peers |-> Nil],
     resultTx |-> Nil, finalized |-> FALSE]

\* go op.processRequest(runCalculationsParams{reqs, ts, balances, ...}): the
\* task, known by the state index it executes against
newTask(idx, sel, ts) == [stateIndex |-> idx]

\* mutant: the in-flight guard is missing
roundInFlightIgnored(ls) == FALSE

\* mutant: a round is in flight only until its result transaction is set
roundInFlightUntilResult(ls) == ls # Nil /\ ls.resultTx = Nil

\* if op.leaderStatus != nil { return }: request already selected
roundInFlight(ls) == ls # Nil

\* mutant: the reach guard is off by one
tooFewSendsOffByOne(numSucc) == numSucc < quorum - 2

\* if numSucc < op.quorum()-1 { return }
tooFewSends(numSucc) == numSucc < quorum - 1

\* mutant: an empty selection is not rejected
startProcessingEmptyBatch(ls, bal, sel, numSucc, ts) ==
    IF bal = Nil THEN [step |-> "nobalances", sent |-> FALSE, leaderStatus |-> ls]
    ELSE IF roundInFlight(ls) THEN [step |-> "inflight", sent |-> FALSE, leaderStatus |-> ls]
    ELSE IF tooFewSends(numSucc) THEN [step |-> "fewsends", sent |-> TRUE, leaderStatus |-> ls]
    ELSE IF ~takeMsgsOk(sel) THEN [step |-> "panic", sent |-> TRUE, leaderStatus |-> ls]
    ELSE [step |-> "created", sent |-> TRUE, leaderStatus |-> newLeaderStatus(sel, ts)]

\* startProcessing: what it does given the selection and the broadcast's result
\*   step: "nobalances" | "inflight" | "noreqs" | "fewsends" | "panic" | "created"
startProcessing(ls, bal, sel, numSucc, ts) ==
    IF bal = Nil THEN [step |-> "nobalances", sent |-> FALSE, leaderStatus |-> ls]
    ELSE IF roundInFlight(ls) THEN [step |-> "inflight", sent |-> FALSE, leaderStatus |-> ls]
    ELSE IF sel = {} THEN [step |-> "noreqs", sent |-> FALSE, leaderStatus |-> ls]
    ELSE IF tooFewSends(numSucc) THEN [step |-> "fewsends", sent |-> TRUE, leaderStatus |-> ls]
    ELSE IF ~takeMsgsOk(sel) THEN [step |-> "panic", sent |-> TRUE, leaderStatus |-> ls]
    ELSE [step |-> "created", sent |-> TRUE, leaderStatus |-> newLeaderStatus(sel, ts)]

\* ---------------------------------------------------------- checkQuorum
\* mutant: every recorded share is collected
hashMatchesAny(slot, mainHash) == TRUE

\* if op.leaderStatus.signedResults[i].essenceHash == mainHash
hashMatches(slot, mainHash) == slot.essenceHash = mainHash

\* the peers whose share the loop appends (all slots set)
matchingPeers(ls) ==
    {i \in Peers : hashMatches(ls.signedResults[i],
                                ls.signedResults[OwnPeerIndex].essenceHash)}

RECURSIVE sharesUpTo(_, _, _)
sharesUpTo(ls, m, n) ==
    IF n = 0 THEN <<>>
    ELSE IF (n - 1) \in m
         THEN Append(sharesUpTo(ls, m, n - 1), ls.signedResults[n - 1].sigShare)
         ELSE sharesUpTo(ls, m, n - 1)

\* the sigShares slice the loop builds, in peer order
collectSigShares(ls) == sharesUpTo(ls, matchingPeers(ls), N)

\* the loop reads signedResults[i].essenceHash of every slot: a nil slot panics
derefPanics(ls) == \E i \in Peers : ls.signedResults[i] = Nil

\* mutant: the quorum test is off by one
quorumMissingOffByOne(sigShares) == Len(sigShares) < quorum - 1

\* if len(sigShares) < int(op.quorum()) { return false }
quorumMissing(sigShares) == Len(sigShares) < quorum

\* mutant: the aggregated signature is not verified
signatureAccepted(sigValid) == FALSE

\* if !op.leaderStatus.resultTx.SignaturesValid() { return false }
signatureRejected(sigValid) == ~sigValid

\* checkQuorum: its return value and what it did; aggErr and sigValid are the
\* outcomes of aggregateSigShares and resultTx.SignaturesValid()
checkQuorum(ls, aggErr, sigValid) ==
    LET no == [ret |-> FALSE, panic |-> FALSE, sigShares |-> <<>>, agg |-> "",
               aggregated |-> FALSE, posted |-> FALSE, leaderStatus |-> ls]
        signed == [ls EXCEPT !.resultTx.signature = IF sigValid THEN "valid" ELSE "invalid"]
        verdict == IF sigValid THEN "ok" ELSE "invalid"
    IN  IF ls = Nil THEN no
        ELSE IF ls.resultTx = Nil \/ ls.finalized THEN no
        ELSE IF derefPanics(ls) THEN [no EXCEPT !.panic = TRUE]
        ELSE LET sigShares == collectSigShares(ls)
                 counted == no
             IN  IF quorumMissing(sigShares) THEN counted
                 ELSE IF aggErr
                      THEN [counted EXCEPT !.sigShares = sigShares, !.agg = "error"]
                 ELSE IF signatureRejected(sigValid)
                      THEN [counted EXCEPT !.sigShares = sigShares, !.aggregated = TRUE,
                                !.agg = verdict, !.leaderStatus = signed]
                 ELSE [counted EXCEPT !.ret = TRUE, !.sigShares = sigShares,
                           !.aggregated = TRUE, !.posted = TRUE,
                           !.agg = verdict, !.leaderStatus = signed]

\* -------------------------------------------------------- doSubordinate
\* mutant: the payload test is missing
doSubordinateAnyPayload(crs) ==
    [i \in DOMAIN crs |-> [crs[i] EXCEPT !.processed = TRUE]]

doSubordinate(crs) ==
    [i \in DOMAIN crs |->
        IF crs[i].processed THEN crs[i]
        ELSE IF ~requests[crs[i].req].reqMsg THEN crs[i]
        ELSE [crs[i] EXCEPT !.processed = TRUE]]

\* ------------------------------------------------------------------ Init
Init ==
    /\ stateIndex = NoState
    /\ balances = Nil
    /\ getBalancesDeadline = -1
    /\ leaderStatus = Nil
    /\ requests = [r \in ReqIds |->
                      [reqMsg |-> FALSE,
                       notificationsCurrentState |-> allFalse,
                       notificationsNextState |-> allFalse]]
    /\ currentStateCompRequests = <<>>
    /\ nextStateCompRequests = <<>>
    /\ tasks = {}
    /\ balanceRequests = {}
    /\ now = 0
    /\ crashed = FALSE
    /\ out = NoOut
    /\ postedHashes = {}
    /\ postCount = 0
    /\ chInRequest = <<>>
    /\ backlog = <<>>
    /\ backlogLen = 0
    /\ backlogMutex = "free"
    /\ reader = [pc |-> "receive"]
    /\ batch = [pc |-> "idle", ret |-> <<>>, before |-> <<>>, time |-> 0]
    /\ returned = <<>>
    /\ logicalTime = 1
    /\ sentReqs = 0
    /\ utxoDB = {}
    /\ minted = [called |-> FALSE]

\* ------------------------------------------------------------ takeAction
\* mutant: doSubordinate runs before doLeader
tickOrderSubordinateFirst(spPanic, cqPanic) ==
    <<"doSubordinate", "leaderRole">> \o (IF spPanic THEN <<>> ELSE <<"checkQuorum">>)

\* the steps of one tick: op.doLeader(), which runs the leader role and then
\* op.checkQuorum(), followed by op.doSubordinate(); a panic ends the tick
tickOrder(spPanic, cqPanic) ==
    <<"leaderRole">> \o (IF spPanic THEN <<>> ELSE <<"checkQuorum">>)
                    \o (IF spPanic \/ cqPanic THEN <<>> ELSE <<"doSubordinate">>)

\* one tick: doLeader (requestBalancesFromNode or startProcessing, then
\* checkQuorum), then doSubordinate
takeAction(sel, numSucc, aggErr, sigValid) ==
    LET leader == iAmCurrentLeader
        fetch == leader /\ balances = Nil
                        /\ requestBalancesFromNode(balances, now, getBalancesDeadline)
        sp == IF leader /\ balances # Nil
              THEN startProcessing(leaderStatus, balances, sel, numSucc, now)
              ELSE [step |-> "skipped", sent |-> FALSE, leaderStatus |-> leaderStatus]
        cq == checkQuorum(sp.leaderStatus, aggErr, sigValid)
        panic == sp.step = "panic" \/ cq.panic
        ls2 == IF sp.step = "panic" THEN sp.leaderStatus ELSE cq.leaderStatus
        didPost == sp.step # "panic" /\ cq.posted
        order == tickOrder(sp.step = "panic", cq.panic)
        subordinateRan == \E k \in DOMAIN order : order[k] = "doSubordinate"
    IN  /\ leaderStatus' = ls2
        /\ getBalancesDeadline' = IF fetch THEN now + getBalancesTimeout
                                  ELSE getBalancesDeadline
        /\ balanceRequests' = IF fetch THEN balanceRequests \cup {stateIndex}
                              ELSE balanceRequests
        /\ tasks' = IF sp.step = "created"
                    THEN tasks \cup {newTask(stateIndex, sel, now)}
                    ELSE tasks
        /\ currentStateCompRequests' = IF subordinateRan
                                       THEN doSubordinate(currentStateCompRequests)
                                       ELSE currentStateCompRequests
        /\ crashed' = panic
        /\ postedHashes' = IF didPost
                           THEN postedHashes \cup {ls2.resultTx.essenceHash}
                           ELSE postedHashes
        /\ postCount' = IF didPost THEN Min(postCount + 1, 2) ELSE postCount
        /\ out' = [NoOut EXCEPT
                     !.tick = TRUE,
                     !.fetched = fetch,
                     !.refetched = (fetch /\ stateIndex \in balanceRequests),
                     !.selecting = (sp.step \in {"noreqs", "fewsends", "panic", "created"}),
                     !.selected = IF sp.step \in {"noreqs", "fewsends", "panic", "created"}
                                  THEN sel ELSE {},
                     !.sent = sp.sent,
                     !.numSucc = IF sp.sent THEN numSucc ELSE 0,
                     !.created = (sp.step = "created"),
                     !.checkQuorum = (sp.step # "panic" /\ cq.ret),
                     !.sigShares = IF sp.step = "panic" THEN <<>> ELSE cq.sigShares,
                     !.posted = didPost,
                     !.aggResult = IF sp.step = "panic" THEN "" ELSE cq.agg,
                     !.panic = panic,
                     !.order = order]
        /\ UNCHANGED <<backlogVars, ledgerVars, stateIndex, balances, requests, nextStateCompRequests, now>>

\* the scheduler ticks the operator once it has a state (startProcessing reads
\* op.stateTx); the batch selected, the sends that succeed and the outcomes of
\* aggregateSigShares and SignaturesValid are the environment's
Tick ==
    /\ ~crashed
    /\ stateIndex # NoState
    /\ \E sel \in Selectable, numSucc \in SendCounts, aggErr \in BOOLEAN, sigValid \in BOOLEAN :
          takeAction(sel, numSucc, aggErr, sigValid)

\* reqs := op.selectRequestsToProcess() followed by takeMsgs(reqs): the batch
\* may hold a request of op.requests whose message has not arrived
AnySelection == SUBSET ReqIds

\* a tick whose selection is not confined to the requests with a message
TickAnySelection ==
    /\ ~crashed
    /\ stateIndex # NoState
    /\ \E sel \in AnySelection, numSucc \in SendCounts, aggErr \in BOOLEAN, sigValid \in BOOLEAN :
          takeAction(sel, numSucc, aggErr, sigValid)

\* ----------------------------------------------------------- setNewState
\* mutant: any advance of the state index counts as sequential
nextStateTransitionAnyAdvance(prev, idx) == prev # NoState /\ idx > prev

\* nextStateTransition: the new index is the previous local index plus one
nextStateTransition(prev, idx) == prev # NoState /\ idx = prev + 1

\* op.resetLeader(stateTx.ID().Bytes()): the in-flight round is discarded
resetLeader(ls) == Nil

\* the phase of the leader round: "idle", "proposed" (task running),
\* "awaitingQuorum" (resultTx set), "finalized" (resultTx posted)
roundPhase(ls, posts) ==
    IF ls = Nil THEN "idle"
    ELSE IF ls.resultTx = Nil THEN "proposed"
    ELSE IF posts = 0 THEN "awaitingQuorum"
    ELSE "finalized"

\* mutant: setNewState does not reset the leader
leaderKept(ls) == ls

\* mutant: setNewState keeps a round that already has its resultTx
leaderKeptWithResult(ls) == IF ls # Nil /\ ls.resultTx # Nil THEN ls ELSE Nil

\* the leaderStatus setNewState leaves
leaderAfterSetNewState(ls) == resetLeader(ls)

\* mutant: setNewState keeps the balances it holds
balancesKept(bal) == bal

\* op.balances = nil
balancesAfterSetNewState(bal) == Nil

\* the loop body over op.requests
rotateNotifications(req, nst) ==
    IF nst
    THEN LET cur == req.notificationsNextState
             nxt == setAllFalse(req.notificationsCurrentState)
         IN  IF req.reqMsg
             THEN [req EXCEPT !.notificationsNextState = [nxt EXCEPT ![OwnPeerIndex] = TRUE],
                              !.notificationsCurrentState = [cur EXCEPT ![OwnPeerIndex] = TRUE]]
             ELSE [req EXCEPT !.notificationsNextState = nxt,
                              !.notificationsCurrentState = cur]
    ELSE [req EXCEPT !.notificationsNextState = setAllFalse(req.notificationsNextState),
                     !.notificationsCurrentState = setAllFalse(req.notificationsCurrentState)]

setNewState(idx) ==
    LET nst == nextStateTransition(stateIndex, idx)
    IN  /\ stateIndex' = idx
        /\ balances' = balancesAfterSetNewState(balances)
        /\ getBalancesDeadline' = now
        /\ leaderStatus' = leaderAfterSetNewState(leaderStatus)
        /\ currentStateCompRequests' = nextStateCompRequests
        /\ nextStateCompRequests' = <<>>
        /\ requests' = [r \in ReqIds |-> rotateNotifications(requests[r], nst)]
        /\ postedHashes' = {}
        /\ postCount' = 0
        /\ out' = [NoOut EXCEPT !.reset = roundPhase(leaderStatus, postCount),
                                 !.transition = IF nst THEN "sequential" ELSE "jump"]
        /\ UNCHANGED <<backlogVars, ledgerVars, tasks, balanceRequests, now, crashed>>

\* the ledger confirms a new state transaction; state indexes only grow
SetNewState ==
    /\ ~crashed
    /\ \E idx \in 0 .. MaxStateIndex :
          /\ idx > stateIndex
          /\ setNewState(idx)

\* ------------------------------------------------------------- handlers
\* the transaction the execution task produced
newResultTx(idx, h) == [essenceHash |-> h, signature |-> "none", stateIndex |-> idx]

\* a peer's SignedResult as recorded in its slot
newSignedResult(p, idx, h) == [essenceHash |-> h, sigShare |-> <<p, h>>, stateIndex |-> idx]

\* a completion or share of another round is discarded
staleRound(idx) == leaderStatus = Nil \/ idx # stateIndex

\* completion of the execution task launched by startProcessing: the node's
\* own SignedResult and the round's resultTx are written at once
EventResultCalculated ==
    /\ ~crashed
    /\ \E task \in tasks, h \in Hashes :
          /\ tasks' = tasks \ {task}
          /\ leaderStatus' =
                IF staleRound(task.stateIndex) THEN leaderStatus
                ELSE [leaderStatus EXCEPT
                        !.signedResults[OwnPeerIndex] =
                            newSignedResult(OwnPeerIndex, task.stateIndex, h),
                        !.resultTx = newResultTx(task.stateIndex, h)]
          /\ out' = [NoOut EXCEPT !.discarded =
                        IF staleRound(task.stateIndex) THEN "stale" ELSE ""]
    /\ UNCHANGED <<backlogVars, ledgerVars, stateIndex, balances, getBalancesDeadline, requests,
                   currentStateCompRequests, nextStateCompRequests, balanceRequests,
                   now, crashed, postedHashes, postCount>>

\* a SignedResult{stateIndex, essenceHash, signatureShare} of a peer arrives;
\* a slot once set is not written again
EventSignedResult ==
    /\ ~crashed
    /\ \E p \in Peers \ {OwnPeerIndex}, idx \in 0 .. MaxStateIndex, h \in Hashes :
          LET drop == IF staleRound(idx) THEN "stale"
                      ELSE IF leaderStatus.signedResults[p] # Nil THEN "set"
                      ELSE ""
          IN  /\ leaderStatus' =
                    IF drop # "" THEN leaderStatus
                    ELSE [leaderStatus EXCEPT
                            !.signedResults[p] = newSignedResult(p, idx, h)]
              /\ out' = [NoOut EXCEPT !.discarded = drop]
    /\ UNCHANGED <<backlogVars, ledgerVars, stateIndex, balances, getBalancesDeadline, requests,
                   currentStateCompRequests, nextStateCompRequests, tasks,
                   balanceRequests, now, crashed, postedHashes, postCount>>

\* BalancesResponse{address, balances} answers a pending query; the snapshot
\* is that of the state the query was sent in (takenAt) and is stored in the
\* state the answer arrives in (storedAt)
EventBalancesMsg ==
    /\ ~crashed
    /\ \E q \in balanceRequests :
          /\ balanceRequests' = balanceRequests \ {q}
          /\ balances' = [takenAt |-> q, storedAt |-> stateIndex]
    /\ out' = NoOut
    /\ UNCHANGED <<backlogVars, ledgerVars, stateIndex, getBalancesDeadline, leaderStatus, requests,
                   currentStateCompRequests, nextStateCompRequests, tasks,
                   now, crashed, postedHashes, postCount>>

\* the message of a request arrives: the payload is kept and the node's own
\* slot is notified in both vectors
EventRequestMsg ==
    /\ ~crashed
    /\ \E r \in ReqIds :
          /\ ~requests[r].reqMsg
          /\ requests' = [requests EXCEPT
                            ![r].reqMsg = TRUE,
                            ![r].notificationsCurrentState[OwnPeerIndex] = TRUE,
                            ![r].notificationsNextState[OwnPeerIndex] = TRUE]
    /\ out' = NoOut
    /\ UNCHANGED <<backlogVars, ledgerVars, stateIndex, balances, getBalancesDeadline, leaderStatus,
                   currentStateCompRequests, nextStateCompRequests, tasks,
                   balanceRequests, now, crashed, postedHashes, postCount>>

\* a peer notifies that it has seen a request, for the current or the next state
EventNotifyReq ==
    /\ ~crashed
    /\ \E r \in ReqIds, p \in Peers \ {OwnPeerIndex}, next \in BOOLEAN :
          requests' = IF next
                      THEN [requests EXCEPT ![r].notificationsNextState[p] = TRUE]
                      ELSE [requests EXCEPT ![r].notificationsCurrentState[p] = TRUE]
    /\ out' = NoOut
    /\ UNCHANGED <<backlogVars, ledgerVars, stateIndex, balances, getBalancesDeadline, leaderStatus,
                   currentStateCompRequests, nextStateCompRequests, tasks,
                   balanceRequests, now, crashed, postedHashes, postCount>>

\* a StartProcessing message of the leader arrives at this node as subordinate:
\* a computation request is queued for the current or the next state
EventStartProcessingReq ==
    /\ ~crashed
    /\ stateIndex # NoState
    /\ \E r \in ReqIds, next \in BOOLEAN :
          LET cr == [req |-> r, processed |-> FALSE]
          IN  IF next
              THEN /\ Len(nextStateCompRequests) < MaxCompReqs
                   /\ nextStateCompRequests' = Append(nextStateCompRequests, cr)
                   /\ UNCHANGED currentStateCompRequests
              ELSE /\ Len(currentStateCompRequests) < MaxCompReqs
                   /\ currentStateCompRequests' = Append(currentStateCompRequests, cr)
                   /\ UNCHANGED nextStateCompRequests
    /\ out' = NoOut
    /\ UNCHANGED <<backlogVars, ledgerVars, stateIndex, balances, getBalancesDeadline, leaderStatus, requests,
                   tasks, balanceRequests, now, crashed, postedHashes, postCount>>

\* the clock advances
AdvanceTime ==
    /\ ~crashed
    /\ now < MaxTime
    /\ now' = now + 1
    /\ out' = NoOut
    /\ UNCHANGED <<backlogVars, ledgerVars, stateIndex, balances, getBalancesDeadline, leaderStatus, requests,
                   currentStateCompRequests, nextStateCompRequests, tasks,
                   balanceRequests, crashed, postedHashes, postCount>>

\* the clock advances past the retry deadline of a query sent at MaxTime
AdvanceClock ==
    /\ ~crashed
    /\ now < MaxTime + getBalancesTimeout
    /\ now' = now + 1
    /\ out' = NoOut
    /\ UNCHANGED <<backlogVars, ledgerVars, stateIndex, balances, getBalancesDeadline, leaderStatus, requests,
                   currentStateCompRequests, nextStateCompRequests, tasks,
                   balanceRequests, crashed, postedHashes, postCount>>

\* ---------------------------------------------------------- solo backlog
\* the time locks a request's output may carry; 0 is no time lock
TimeLocks == 0 .. MaxTime

\* mutant: the mutex does not exclude
mutexFreeAlways(m) == TRUE

\* ch.backlogMutex.Lock() succeeds
mutexFree(m) == m = "free"

\* int64(req.Output().TimeLock()) <= ch.Env.LogicalTime().Unix()
timeUnlocked(req, t) == req.timeLock <= t

\* a[k] = r on the backing array, which append extends when k is past its end
store(a, k, r) ==
    IF k <= Len(a) THEN [a EXCEPT ![k] = r] ELSE Append(a, r)

\* EnqueueRequests: chain.chInRequest <- reqRef
EnqueueRequest ==
    /\ sentReqs < MaxBacklog
    /\ \E tl \in TimeLocks :
          chInRequest' = Append(chInRequest, [id |-> sentReqs + 1, timeLock |-> tl])
    /\ sentReqs' = sentReqs + 1
    /\ UNCHANGED <<operatorVars, ledgerVars, backlog, backlogLen, backlogMutex, reader,
                   batch, returned, logicalTime>>

\* readRequestsLoop: for r := range ch.chInRequest
ReaderReceive ==
    /\ reader.pc = "receive"
    /\ chInRequest # <<>>
    /\ reader' = [pc |-> "lock", r |-> Head(chInRequest)]
    /\ chInRequest' = Tail(chInRequest)
    /\ UNCHANGED <<operatorVars, ledgerVars, backlog, backlogLen, backlogMutex, batch,
                   returned, logicalTime, sentReqs>>

\* addToBacklog: ch.backlogMutex.Lock()
AddToBacklogLock ==
    /\ reader.pc = "lock"
    /\ mutexFree(backlogMutex)
    /\ backlogMutex' = "reader"
    /\ reader' = [reader EXCEPT !.pc = "append"]
    /\ UNCHANGED <<operatorVars, ledgerVars, chInRequest, backlog, backlogLen, batch,
                   returned, logicalTime, sentReqs>>

\* addToBacklog: ch.backlog = append(ch.backlog, r), then the deferred Unlock
AddToBacklogAppend ==
    /\ reader.pc = "append"
    /\ backlog' = store(backlog, backlogLen + 1, reader.r)
    /\ backlogLen' = backlogLen + 1
    /\ backlogMutex' = "free"
    /\ reader' = [pc |-> "receive"]
    /\ UNCHANGED <<operatorVars, ledgerVars, chInRequest, batch, returned, logicalTime,
                   sentReqs>>

\* collateBatch: Lock, ret := make(...), remain := ch.backlog[:0]; the range
\* loop takes the slice as it is now (n elements of the backing array)
CollateBatchLock ==
    /\ batch.pc = "idle"
    /\ mutexFree(backlogMutex)
    /\ backlogMutex' = "batch"
    /\ batch' = [pc |-> "loop", i |-> 1, n |-> backlogLen, remain |-> 0, ret |-> <<>>,
                 before |-> SubSeq(backlog, 1, backlogLen), time |-> logicalTime]
    /\ UNCHANGED <<operatorVars, ledgerVars, chInRequest, backlog, backlogLen, reader,
                   returned, logicalTime, sentReqs>>

\* collateBatch: one iteration of the loop; remain shares the backing array,
\* so append(remain, req) writes the array in place
CollateBatchStep ==
    /\ batch.pc = "loop"
    /\ batch.i <= batch.n
    /\ LET req == backlog[batch.i]
       IN  IF timeUnlocked(req, logicalTime)
           THEN /\ batch' = [batch EXCEPT !.i = @ + 1, !.ret = Append(@, req)]
                /\ UNCHANGED backlog
           ELSE /\ batch' = [batch EXCEPT !.i = @ + 1, !.remain = @ + 1]
                /\ backlog' = store(backlog, batch.remain + 1, req)
    /\ UNCHANGED <<operatorVars, ledgerVars, chInRequest, backlogLen, backlogMutex, reader,
                   returned, logicalTime, sentReqs>>

\* collateBatch: ch.backlog = remain; return ret, with the deferred Unlock. What
\* lies in the array past len(remain) is unreachable and dropped
CollateBatchReturn ==
    /\ batch.pc = "loop"
    /\ batch.i > batch.n
    /\ backlogLen' = batch.remain
    /\ backlog' = SubSeq(backlog, 1, batch.remain)
    /\ backlogMutex' = "free"
    /\ returned' = returned \o batch.ret
    /\ batch' = [pc |-> "idle", ret |-> batch.ret, before |-> batch.before,
                 time |-> batch.time]
    /\ UNCHANGED <<operatorVars, ledgerVars, chInRequest, reader, logicalTime, sentReqs>>

\* env.AdvanceClockBy: the logical clock moves between two collateBatch calls
AdvanceLogicalTime ==
    /\ batch.pc = "idle"
    /\ logicalTime < MaxTime
    /\ logicalTime' = logicalTime + 1
    /\ UNCHANGED <<operatorVars, ledgerVars, chInRequest, backlog, backlogLen, backlogMutex,
                   reader, batch, returned, sentReqs>>

\* ------------------------------------------------------------ MintTokens
Wallets == {"w1", "w2"}
Amounts == 1 .. MaxAmount

\* the steps of MintTokens that can fail: AddExtendedOutputSimple,
\* AddReminderOutputIfNeeded, BuildWithED25519 and AddToLedger
MintFailures == {"none", "output", "reminder", "build", "ledger"}

\* the zero color [32]byte{}
ColorZero == [zero |-> TRUE]

\* the transaction built from the wallet's outputs as the ledger has them; its
\* hash is the color it mints
mintTx(wallet, amount) == [wallet |-> wallet, amount |-> amount, inputs |-> Cardinality(utxoDB)]

\* MintTokens: the color and the error it returns and whether the transaction
\* went into the ledger, given the step that fails
mintTokens(wallet, amount, failure) ==
    IF failure \in {"output", "reminder", "build"}
    THEN [color |-> ColorZero, err |-> failure, added |-> FALSE]
    ELSE IF failure = "ledger"
    THEN [color |-> ColorZero, err |-> "nil", added |-> FALSE]
    ELSE [color |-> mintTx(wallet, amount), err |-> "nil", added |-> TRUE]

MintTokens ==
    /\ Cardinality(utxoDB) < MaxMints
    /\ \E wallet \in Wallets, amount \in Amounts, failure \in MintFailures :
          LET r == mintTokens(wallet, amount, failure)
          IN  /\ utxoDB' = IF r.added THEN utxoDB \cup {mintTx(wallet, amount)} ELSE utxoDB
              /\ minted' = [called |-> TRUE, wallet |-> wallet, amount |-> amount,
                            failed |-> failure, color |-> r.color, err |-> r.err]
    /\ UNCHANGED <<operatorVars, backlogVars>>

\* ------------------------------------------------------- specifications
Next ==
    \/ Tick
    \/ SetNewState
    \/ EventResultCalculated
    \/ EventSignedResult
    \/ EventBalancesMsg
    \/ EventRequestMsg
    \/ AdvanceTime

Spec == Init /\ [][Next]_vars

\* the request bookkeeping alone: state transitions, request messages and
\* notifications of peers
NextNotif ==
    \/ SetNewState
    \/ EventRequestMsg
    \/ EventNotifyReq

SpecNotif == Init /\ [][NextNotif]_vars

\* the leader and the balance oracle: ticks, state transitions, answers of the
\* node and a clock that outlasts the retry deadline
NextBalances ==
    \/ Tick
    \/ SetNewState
    \/ EventBalancesMsg
    \/ EventRequestMsg
    \/ AdvanceClock

SpecBalances == Init /\ [][NextBalances]_vars

\* the leader with a selection policy that may return requests known only by
\* notification
NextSelect ==
    \/ TickAnySelection
    \/ SetNewState
    \/ EventBalancesMsg
    \/ EventRequestMsg
    \/ AdvanceTime

SpecSelect == Init /\ [][NextSelect]_vars

\* the node as leader and as subordinate: computation requests of the leader's
\* StartProcessing messages are queued while the node's own round runs; the
\* peers' signed results stay out
NextSub ==
    \/ Tick
    \/ SetNewState
    \/ EventResultCalculated
    \/ EventBalancesMsg
    \/ EventRequestMsg
    \/ EventStartProcessingReq
    \/ AdvanceTime

SpecSub == Init /\ [][NextSub]_vars

\* the first state transaction is confirmed and no other follows
SetFirstState == stateIndex = NoState /\ SetNewState

\* a tick on which aggregateSigShares succeeds and the aggregated signature
\* verifies whenever checkQuorum gets that far
TickHonest ==
    /\ ~crashed
    /\ stateIndex # NoState
    /\ \E sel \in Selectable, numSucc \in SendCounts :
          takeAction(sel, numSucc, FALSE, TRUE)

\* one round of the leader under the scheduling the operator runs with: the
\* timer keeps ticking, the clock advances, the node answers balance queries
\* and the execution task completes
NextLive ==
    \/ TickHonest
    \/ SetFirstState
    \/ EventResultCalculated
    \/ EventSignedResult
    \/ EventBalancesMsg
    \/ EventRequestMsg
    \/ AdvanceTime

SpecLive ==
    /\ Init
    /\ [][NextLive]_vars
    /\ WF_vars(TickHonest)
    /\ WF_vars(AdvanceTime)
    /\ WF_vars(EventBalancesMsg)
    /\ WF_vars(EventResultCalculated)

\* the solo chain's backlog: the sender, readRequestsLoop and batchLoop
NextBacklog ==
    \/ EnqueueRequest
    \/ ReaderReceive
    \/ AddToBacklogLock
    \/ AddToBacklogAppend
    \/ CollateBatchLock
    \/ CollateBatchStep
    \/ CollateBatchReturn
    \/ AdvanceLogicalTime

SpecBacklog == Init /\ [][NextBacklog]_vars

\* the solo ledger: calls of MintTokens
NextMint == MintTokens

SpecMint == Init /\ [][NextMint]_vars

\* ================================================================ claims
\* the peers whose slot is set and holds the node's own essenceHash
Agreeing(ls) ==
    {p \in Peers : /\ ls.signedResults[OwnPeerIndex] # Nil
                   /\ ls.signedResults[p] # Nil
                   /\ ls.signedResults[p].essenceHash
                        = ls.signedResults[OwnPeerIndex].essenceHash}

\* the peers whose slot is set and holds another essenceHash
Disagreeing(ls) ==
    {p \in Peers : /\ ls.signedResults[OwnPeerIndex] # Nil
                   /\ ls.signedResults[p] # Nil
                   /\ ls.signedResults[p].essenceHash
                        # ls.signedResults[OwnPeerIndex].essenceHash}

SeqRange(q) == {q[k] : k \in 1 .. Len(q)}

\* C1: quorum safety. A tick whose checkQuorum reports success or posts resultTx
\* ends in a round where at least quorum() peer slots, the node's own included,
\* hold the node's own essenceHash.
C1_QuorumSafety ==
    (out.checkQuorum \/ out.posted) =>
        /\ leaderStatus # Nil
        /\ Cardinality(Agreeing(leaderStatus)) >= quorum

\* C1 witness: a round was finalized while one peer reported another hash
C1_Witness ==
    /\ out.posted
    /\ leaderStatus # Nil
    /\ Cardinality(Agreeing(leaderStatus)) = quorum
    /\ Disagreeing(leaderStatus) # {}

\* C2: between two setNewState calls all posted result transactions carry the
\* same essenceHash.
C2_OneHashPerStateIndex == Cardinality(postedHashes) <= 1

\* C2 witness: more than one transaction was posted for the state index
C2_Witness == postCount = 2 /\ Cardinality(postedHashes) = 1

\* C3: the shares checkQuorum hands to aggregation are exactly the shares of the
\* peers whose recorded essenceHash equals the node's own, one per peer, and the
\* tick leaves the recorded slots as they were.
C3_SharesExactlyMatching ==
    [][(out'.tick /\ out'.sigShares # <<>>) =>
          /\ leaderStatus # Nil
          /\ SeqRange(out'.sigShares)
               = {leaderStatus.signedResults[p].sigShare : p \in Agreeing(leaderStatus)}
          /\ Len(out'.sigShares) = Cardinality(Agreeing(leaderStatus))
          /\ \A p \in Disagreeing(leaderStatus) :
                leaderStatus.signedResults[p].sigShare \notin SeqRange(out'.sigShares)
          /\ leaderStatus'.signedResults = leaderStatus.signedResults]_vars

\* C3 witness: quorum() shares were aggregated while a share with another hash
\* is recorded
C3_Witness ==
    /\ Len(out.sigShares) = quorum
    /\ leaderStatus # Nil
    /\ Cardinality(Disagreeing(leaderStatus)) = N - quorum
    /\ N > quorum

\* C4: once checkQuorum has succeeded the round is finalized and nothing is
\* posted for it again. (The original claim; the code never sets finalized.)
C4_FinalizedOnce ==
    /\ postCount >= 1 => (leaderStatus # Nil /\ leaderStatus.finalized)
    /\ postCount <= 1

\* C5: with resultTx set, the round not finalized and fewer than quorum() slots
\* holding the node's own hash, a tick's checkQuorum returns false without a
\* panic, posts nothing and leaves leaderStatus unchanged. (The original claim;
\* the code dereferences the empty slots.)
C5_NotEnoughSharesKeepsWaiting ==
    [][(/\ out'.tick
        /\ leaderStatus # Nil
        /\ leaderStatus.resultTx # Nil
        /\ ~leaderStatus.finalized
        /\ Cardinality(Agreeing(leaderStatus)) < quorum) =>
          /\ ~out'.panic
          /\ ~crashed'
          /\ ~out'.checkQuorum
          /\ ~out'.posted
          /\ leaderStatus' = leaderStatus]_vars

\* C6: round isolation. Whatever is recorded in leaderStatus (a slot of
\* signedResults, resultTx) was produced for the current state index: nothing of
\* a round started before the last setNewState is in the round started after it.
C6_RoundIsolation ==
    leaderStatus # Nil =>
        /\ \A p \in Peers :
              leaderStatus.signedResults[p] # Nil
                 => leaderStatus.signedResults[p].stateIndex = stateIndex
        /\ leaderStatus.resultTx # Nil => leaderStatus.resultTx.stateIndex = stateIndex

\* C6 witness: a completion or share of an earlier round arrived and was dropped
\* while the round of the current state is in flight
C6_Witness ==
    /\ out.discarded = "stale"
    /\ leaderStatus # Nil
    /\ \E p \in Peers : leaderStatus.signedResults[p] # Nil

\* C7: broadcast reach guard. When the StartProcessing broadcast reports fewer
\* than quorum()-1 successful sends, leaderStatus stays absent, no task is
\* launched and nothing else of the operator changes; the next tick of the
\* leader with balances known selects again and broadcasts what it selected.
C7_ReachGuard ==
    [][/\ (out'.tick /\ out'.sent /\ out'.numSucc < quorum - 1) =>
             /\ leaderStatus = Nil
             /\ leaderStatus' = Nil
             /\ ~out'.created
             /\ ~crashed'
             /\ UNCHANGED <<stateIndex, balances, getBalancesDeadline, requests, tasks,
                            balanceRequests, nextStateCompRequests, postedHashes,
                            postCount>>
             /\ currentStateCompRequests' = doSubordinate(currentStateCompRequests)
       /\ (out'.tick /\ out.sent /\ out.numSucc < quorum - 1) =>
             /\ out'.selecting
             /\ out'.selected # {} => out'.sent]_vars

\* C7 witness: quorum()-2 sends succeeded (one of three in a committee of four)
\* and no leaderStatus exists
C7_Witness ==
    /\ out.sent
    /\ out.numSucc = quorum - 2
    /\ leaderStatus = Nil
    /\ tasks = {}

\* C8: leaderStatus is created only by a tick on which the node is the current
\* leader, balances are known, no leaderStatus exists, the selection is not
\* empty and the broadcast reached at least quorum()-1 peers; leaderStatus
\* present implies the node is the current leader, and only the current leader
\* broadcasts StartProcessing or requests balances.
C8_CreationConditions ==
    /\ [][(out'.created \/ (leaderStatus = Nil /\ leaderStatus' # Nil)) =>
             /\ out'.tick
             /\ iAmCurrentLeader
             /\ balances # Nil
             /\ leaderStatus = Nil
             /\ out'.created
             /\ out'.selected # {}
             /\ leaderStatus'.reqs = out'.selected
             /\ out'.sent
             /\ out'.numSucc >= quorum - 1]_vars
    /\ [](leaderStatus # Nil => iAmCurrentLeader)
    /\ []((out.sent \/ out.fetched) => iAmCurrentLeader)

\* C8 witness: a round was created by the leader's tick
C8_Witness ==
    /\ out.created
    /\ out.numSucc = quorum - 1
    /\ leaderStatus # Nil
    /\ iAmCurrentLeader

\* C9: every setNewState leaves leaderStatus absent, whatever the phase of the
\* round before it, and the tick that follows does not finalize or post.
C9_SetNewStateResets ==
    [][/\ stateIndex' # stateIndex => leaderStatus' = Nil
       /\ out'.reset # "" => leaderStatus' = Nil
       /\ (out'.tick /\ out.reset # "") => (~out'.checkQuorum /\ ~out'.posted)]_vars

\* C9 witness: setNewState discarded a round whose transaction had been posted
C9_Witness == out.reset = "finalized" /\ leaderStatus = Nil

\* C10: on a sequential transition (new index = previous index + 1) the
\* current-state notification vector of every request after setNewState equals
\* its next-state vector before it. (The original claim; it fails through the
\* missing self-notification of the non-sequential branch, C12.)
C10_SequentialContinuity ==
    [][(stateIndex # NoState /\ stateIndex' = stateIndex + 1) =>
          \A r \in ReqIds :
             requests'[r].notificationsCurrentState
                = requests[r].notificationsNextState]_vars

\* C11: on a non-sequential transition (the new index is not the previous index
\* plus one, or there was no previous state) both notification vectors of every
\* request are all-false after setNewState.
C11_NonSequentialZeroes ==
    [][(stateIndex' # stateIndex /\ ~(stateIndex # NoState /\ stateIndex' = stateIndex + 1)) =>
          \A r \in ReqIds :
             /\ requests'[r].notificationsCurrentState = allFalse
             /\ requests'[r].notificationsNextState = allFalse]_vars

\* C11 witness: setNewState jumped over a state index and left a request whose
\* message is held with both vectors zeroed
C11_Witness ==
    /\ out.transition = "jump"
    /\ stateIndex >= 2
    /\ \E r \in ReqIds :
          /\ requests[r].reqMsg
          /\ requests[r].notificationsCurrentState = allFalse
          /\ requests[r].notificationsNextState = allFalse

\* C12: after every setNewState, sequential or not, every request whose message
\* is held has the node's own slot true in both vectors, and on a sequential
\* transition every other slot of its next-state vector is false. (The original
\* claim; the non-sequential branch zeroes both vectors and notifies nothing.)
C12_SelfNotification ==
    [][stateIndex' # stateIndex =>
          \A r \in ReqIds :
             requests'[r].reqMsg =>
                /\ requests'[r].notificationsCurrentState[OwnPeerIndex]
                /\ requests'[r].notificationsNextState[OwnPeerIndex]
                /\ (stateIndex # NoState /\ stateIndex' = stateIndex + 1) =>
                      \A p \in Peers \ {OwnPeerIndex} :
                         ~requests'[r].notificationsNextState[p]]_vars

\* C13: balance retry throttling. A tick sends a balance query exactly when the
\* node is the current leader, balances are nil and the clock is past
\* getBalancesDeadline; the query sets the deadline to now + getBalancesTimeout
\* and no other tick moves it; the tick that follows a fetching tick with
\* balances still unknown sends nothing.
C13_BalanceRetryThrottling ==
    [][out'.tick =>
          /\ out'.fetched <=> (iAmCurrentLeader /\ balances = Nil /\ now > getBalancesDeadline)
          /\ out'.fetched => /\ getBalancesDeadline' = now + getBalancesTimeout
                             /\ stateIndex \in balanceRequests'
          /\ ~out'.fetched => /\ getBalancesDeadline' = getBalancesDeadline
                              /\ balanceRequests' = balanceRequests
          /\ (out.tick /\ out.fetched /\ balances = Nil) => ~out'.fetched
          /\ (balances = Nil /\ now <= getBalancesDeadline) => ~out'.fetched]_vars

\* C13 witness: with the first query of the state still unanswered and its
\* deadline elapsed, the tick sent a second query
C13_Witness ==
    /\ out.fetched
    /\ out.refetched
    /\ balances = Nil
    /\ getBalancesDeadline = now + getBalancesTimeout

\* C14: error containment. No tick panics: takeAction returns normally from
\* every reachable state and the operator keeps running. (The original claim;
\* checkQuorum dereferences the empty slots of signedResults, C5, and nothing
\* recovers the panic.)
C14_NoPanicEscapes == ~out.panic /\ ~crashed

\* C15: at most one round per state transaction. While leaderStatus exists no
\* tick selects, broadcasts StartProcessing, launches a task or creates a
\* leaderStatus; no step other than setNewState removes it or changes its
\* batch, batchHash or timestamp.
C15_OneRoundPerState ==
    [][leaderStatus # Nil =>
          /\ out'.tick => /\ ~out'.selecting
                          /\ ~out'.sent
                          /\ ~out'.created
                          /\ tasks' = tasks
          /\ stateIndex' = stateIndex =>
                /\ leaderStatus' # Nil
                /\ leaderStatus'.reqs = leaderStatus.reqs
                /\ leaderStatus'.batchHash = leaderStatus.batchHash
                /\ leaderStatus'.ts = leaderStatus.ts
          /\ leaderStatus' = Nil => (out'.reset # "" /\ stateIndex' # stateIndex)]_vars

\* C15 witness: the leader ticked at a later time with balances known, a request
\* at hand and the round's result already computed, and started nothing
C15_Witness ==
    /\ out.tick
    /\ ~out.sent
    /\ iAmCurrentLeader
    /\ balances # Nil
    /\ \E r \in ReqIds : requests[r].reqMsg
    /\ leaderStatus # Nil
    /\ leaderStatus.resultTx # Nil
    /\ leaderStatus.ts < now

\* C16: setNewState sets balances to nil and the fetch deadline to the current
\* time; the balances the operator holds were stored after the last
\* setNewState, so a tick that selects, broadcasts StartProcessing or creates
\* leaderStatus uses a snapshot obtained after that transition, and the tick
\* right after a transition does none of these.
C16_FreshBalances ==
    /\ [][stateIndex' # stateIndex =>
             (balances' = Nil /\ getBalancesDeadline' = now /\ now' = now)]_vars
    /\ [](balances # Nil => balances.storedAt = stateIndex)
    /\ []((out.selecting \/ out.sent \/ out.created) =>
             (balances # Nil /\ balances.storedAt = stateIndex))
    /\ [][(out.reset # "" /\ out'.tick) =>
             (~out'.selecting /\ ~out'.sent /\ ~out'.created)]_vars

\* C16 witness: a round was created in a state that followed a state with a
\* round of its own, on balances stored after the transition
C16_Witness ==
    /\ out.created
    /\ balances # Nil
    /\ balances.storedAt = stateIndex
    /\ \E t \in tasks : t.stateIndex < stateIndex

\* C17: when a request of the selected batch has no message, startProcessing
\* halts before anything is sent: no StartProcessing broadcast, no
\* leaderStatus. (The original claim; the code broadcasts first and tests the
\* messages afterwards.)
C17_NoBroadcastWithoutMessages ==
    [][(out'.tick /\ out'.selecting /\ \E r \in out'.selected : ~requests[r].reqMsg) =>
          (~out'.sent /\ leaderStatus' = Nil)]_vars

\* C18: when aggregateSigShares returns an error or the aggregated signature
\* of resultTx does not verify, checkQuorum returns false, posts nothing and
\* does not mark the round finalized; the round stays in flight with its slots
\* and resultTx, and the checkQuorum of the next tick aggregates again.
C18_FailedAggregationRetried ==
    [][/\ out'.aggResult \in {"error", "invalid"} =>
             /\ out'.tick
             /\ ~out'.checkQuorum
             /\ ~out'.posted
             /\ ~crashed'
             /\ postCount' = postCount
             /\ postedHashes' = postedHashes
             /\ leaderStatus' # Nil
             /\ ~leaderStatus'.finalized
             /\ leaderStatus'.resultTx # Nil
             /\ leaderStatus'.signedResults = leaderStatus.signedResults
       /\ (out.aggResult \in {"error", "invalid"} /\ out'.tick) =>
             (out'.aggResult # "" /\ out'.sigShares = out.sigShares)]_vars

\* C18 witness: an earlier tick's signature did not verify, nothing was posted,
\* and this tick aggregated the same round again, this time with an error
C18_Witness ==
    /\ out.aggResult = "error"
    /\ leaderStatus # Nil
    /\ leaderStatus.resultTx # Nil
    /\ leaderStatus.resultTx.signature = "invalid"
    /\ ~leaderStatus.finalized
    /\ postCount = 0

\* the step a comes before the step b in the sequence q
Precedes(q, a, b) ==
    \E i \in DOMAIN q, j \in DOMAIN q : i < j /\ q[i] = a /\ q[j] = b

\* C19 (as claimed): every tick runs doSubordinate first, then the leader role,
\* then the quorum check.
C19_SubordinateFirst ==
    out.tick =>
        /\ out.order # <<>>
        /\ out.order[1] = "doSubordinate"
        /\ Precedes(out.order, "leaderRole", "checkQuorum")

\* C19 (amended): every tick runs the leader role first, then the quorum check,
\* then doSubordinate; a tick that panics in the leader role or in the quorum
\* check ends there and marks no computation request processed, any other tick
\* marks every computation request whose message is held.
C19_LeaderFirst ==
    [][out'.tick =>
          /\ out'.order[1] = "leaderRole"
          /\ ~out'.panic => out'.order = <<"leaderRole", "checkQuorum", "doSubordinate">>
          /\ out'.panic => /\ ~Precedes(out'.order, "doSubordinate", "leaderRole")
                           /\ \A k \in DOMAIN out'.order : out'.order[k] # "doSubordinate"
                           /\ currentStateCompRequests' = currentStateCompRequests
          /\ ~out'.panic =>
                currentStateCompRequests' = doSubordinate(currentStateCompRequests)]_vars

\* C19 witness: the quorum check panicked and the tick ended with a delivered
\* computation request still unprocessed
C19_Witness ==
    /\ out.tick
    /\ out.panic
    /\ out.order = <<"leaderRole", "checkQuorum">>
    /\ \E i \in DOMAIN currentStateCompRequests :
          /\ ~currentStateCompRequests[i].processed
          /\ requests[currentStateCompRequests[i].req].reqMsg

\* C20: round liveness. Once the leader's round exists and at least quorum()
\* peers, the node included, have recorded the same essenceHash for good, the
\* round is eventually finalized: its result transaction is posted. (The
\* original claim; a tick that finds a slot of signedResults empty panics, C5,
\* and the round never completes.)
C20_RoundLiveness ==
    <>[](leaderStatus # Nil /\ Cardinality(Agreeing(leaderStatus)) >= quorum)
        => <>(roundPhase(leaderStatus, postCount) = "finalized")

\* C21: subordinate bookkeeping. When doSubordinate runs, a current-state
\* computation request is processed afterwards exactly if it was processed
\* before or its request's payload is present; entries are neither added,
\* dropped nor reordered, the next-state list is untouched, the only task a tick
\* launches is the leader's, and no tick turns processed from true to false.
C21_SubordinateBookkeeping ==
    [][out'.tick =>
          /\ Len(currentStateCompRequests') = Len(currentStateCompRequests)
          /\ nextStateCompRequests' = nextStateCompRequests
          /\ \A i \in DOMAIN currentStateCompRequests :
                /\ currentStateCompRequests'[i].req = currentStateCompRequests[i].req
                /\ currentStateCompRequests[i].processed
                      => currentStateCompRequests'[i].processed
                /\ (\E k \in DOMAIN out'.order : out'.order[k] = "doSubordinate") =>
                      (currentStateCompRequests'[i].processed <=>
                         (\/ currentStateCompRequests[i].processed
                          \/ requests[currentStateCompRequests[i].req].reqMsg))
          /\ ~out'.created => tasks' = tasks
          /\ ~out'.panic =>
                \E k \in DOMAIN out'.order : out'.order[k] = "doSubordinate"]_vars

\* C21 witness: after a tick that ran doSubordinate the current-state list holds
\* a processed entry whose payload is present, and the next-state list holds
\* an entry that was left alone
C21_Witness ==
    /\ out.tick
    /\ ~out.panic
    /\ ~out.created
    /\ \E i \in DOMAIN currentStateCompRequests :
          /\ currentStateCompRequests[i].processed
          /\ requests[currentStateCompRequests[i].req].reqMsg
    /\ \E i \in DOMAIN nextStateCompRequests : ~nextStateCompRequests[i].processed

\* C22: per-state request bookkeeping does not carry forward across a gap: after
\* a non-sequential setNewState the current-state list holds no entry collected
\* before the transition; after a sequential one it is the previous next-state
\* list; the next-state list is empty either way. (The original claim; the code
\* swaps the lists whatever the transition.)
C22_NoCarryAcrossGap ==
    [][stateIndex' # stateIndex =>
          /\ nextStateCompRequests' = <<>>
          /\ IF stateIndex # NoState /\ stateIndex' = stateIndex + 1
             THEN currentStateCompRequests' = nextStateCompRequests
             ELSE currentStateCompRequests' = <<>>]_vars

\* how often the request id occurs in the sequence q
Occurrences(q, id) == Cardinality({k \in DOMAIN q : q[k].id = id})

\* the places a request sent to the chain can be: the channel, the reader's
\* hand, the backlog (during collateBatch: what remain holds, what the loop has
\* not reached and what ret holds) and the batches already returned
Copies(id) ==
    Occurrences(chInRequest, id)
    + (IF reader.pc # "receive" /\ reader.r.id = id THEN 1 ELSE 0)
    + Occurrences(returned, id)
    + (IF batch.pc = "loop"
       THEN Occurrences(SubSeq(backlog, 1, batch.remain), id)
            + Occurrences(SubSeq(backlog, batch.i, batch.n), id)
            + Occurrences(batch.ret, id)
       ELSE Occurrences(SubSeq(backlog, 1, backlogLen), id))

C24_FailureIsAnError ==
    minted.called =>
        /\ minted.failed # "none" => minted.err # "nil"
        /\ minted.err = "nil" =>
              /\ minted.color # ColorZero
              /\ minted.color \in utxoDB

====
